---- MODULE Spec2Model ----
(***************************************************************************)
(* A model of the Opal JIRA ticket tool: the Express wiring of             *)
(* api/index.ts, createJiraTicket / validateJiraConnection of              *)
(* api/jira-tools.ts (the DEX deployment) and of its Petsmart variant, and *)
(* the JiraClient they call.                                               *)
(*                                                                         *)
(* Texts.  A JavaScript string is a sequence of runs [c, n]: n copies of   *)
(* the unit c.  Units are "ws" (a whitespace character), "ch" (any other   *)
(* ordinary character), a glyph the markdown conversion knows, or the      *)
(* shortcode the conversion writes for one.  UnitLen gives the .length of  *)
(* a unit in UTF-16 code units.  A missing (undefined) value is NoText.    *)
(*                                                                         *)
(* Messages.  An error or result message is a sequence of fragments, the   *)
(* literal pieces and the interpolated values of the template string that  *)
(* builds it; "contains" is membership of a fragment.                      *)
(***************************************************************************)
EXTENDS Integers, Sequences, FiniteSets, TLC

\* ---------------------------------------------------------------- bounds

\* Longest run of whitespace put before and after an input text.
MaxPad == 1

\* Most accounts a user-search response lists.
MaxUsers == 1

\* ------------------------------------------------------------------ state

VARIABLES
    deployment,     \* which jira-tools module the process runs: "dex" | "petsmart"
    bearerToken,    \* process.env.BEARER_TOKEN, "" when not set
    JIRA_BASE_URL,  \* process.env.JIRA_BASE_URL
    pc,             \* where the request being served stands
    http,           \* the inbound HTTP request, until its handler has read it
    params,         \* the params object handed to createJiraTicket
    issueData,      \* the CreateIssueRequest fields createIssueWithText builds
    calls,          \* the outbound calls made for this request, in order
    userLookup,     \* how this request's getUserByEmail ended
    created,        \* how this request's createIssue ended
    console,        \* what this request wrote with console.warn
    outcome,        \* what the handler returned, threw or responded
    prev            \* history: the last create-ticket request that made calls

vars == <<deployment, bearerToken, JIRA_BASE_URL, pc, http, params, issueData,
          calls, userLookup, created, console, outcome, prev>>

\* ------------------------------------------------------ program constants

\* jira-tools.ts: if (summary.length > 255)
MAX_SUMMARY_LENGTH == 255

\* jira-tools.ts: if (description && description.length > 32767)
MAX_DESCRIPTION_LENGTH == 32767

\* The two deployments of jira-tools in the repository.
Variants == {"dex", "petsmart"}

PROJECT_KEY(v) == IF v = "dex" THEN "DHK" ELSE "DTO"

DEFAULT_ISSUE_TYPE(v) == IF v = "dex" THEN "Story" ELSE "Epic"

ASSIGNEE_EMAIL(v) ==
    IF v = "dex" THEN "alex.wald@optimizely.com" ELSE "oruhland@petsmart.com"

\* ------------------------------------------------------------------ texts

\* The glyphs convertOpalMarkdownToJira replaces, and what it writes.
emojiMap ==
    [ smiley |-> ":smiley:", blush |-> ":blush:",
      sunglasses |-> ":sunglasses:", thumbsup |-> ":thumbsup:",
      thumbsdown |-> ":thumbsdown:", heart |-> ":heart:", tada |-> ":tada:",
      rocket |-> ":rocket:", warning |-> ":warning:", x |-> ":x:",
      white_check_mark |-> ":white_check_mark:", memo |-> ":memo:",
      bulb |-> ":bulb:", wrench |-> ":wrench:", star |-> ":star:" ]

Glyphs == DOMAIN emojiMap

\* .length of one unit, in UTF-16 code units, as the literals stand in the
\* source file.
UnitLen(c) ==
    CASE c \in {"ws", "ch", "dash", "lb", "rb", "lx"} -> 1
      [] c \in {"heart", "warning"} -> 6
      [] c \in {"x", "white_check_mark", "star"} -> 3
      [] c \in Glyphs \ {"heart", "warning", "x", "white_check_mark", "star"}
            -> 4
      [] c \in {":x:"} -> 3
      [] c \in {":tada:", ":memo:", ":bulb:", ":star:"} -> 6
      [] c \in {":blush:", ":heart:"} -> 7
      [] c \in {":smiley:", ":rocket:", ":wrench:"} -> 8
      [] c \in {":warning:"} -> 9
      [] c \in {":thumbsup:"} -> 10
      [] c \in {":sunglasses:", ":thumbsdown:"} -> 12
      [] c \in {":white_check_mark:"} -> 18

NoText == [def |-> FALSE, runs |-> <<>>]

Text(runs) == [def |-> TRUE, runs |-> runs]

Run(c, n) == [c |-> c, n |-> n]

RECURSIVE RunsLength(_)
RunsLength(runs) ==
    IF runs = <<>> THEN 0
    ELSE UnitLen(Head(runs).c) * Head(runs).n + RunsLength(Tail(runs))

\* s.length
Length(s) == RunsLength(s.runs)

RECURSIVE TrimStart(_)
TrimStart(runs) ==
    IF runs # <<>> /\ Head(runs).c = "ws" THEN TrimStart(Tail(runs)) ELSE runs

RECURSIVE TrimEnd(_)
TrimEnd(runs) ==
    IF runs # <<>> /\ runs[Len(runs)].c = "ws"
    THEN TrimEnd(SubSeq(runs, 1, Len(runs) - 1))
    ELSE runs

\* s.trim()
Trim(s) == Text(TrimEnd(TrimStart(s.runs)))

\* JavaScript truthiness of a string-or-undefined value.
Truthy(s) == s.def /\ Length(s) > 0

\* The units of the action-item pattern: "dash" is one of - and *, "lb" is [,
\* "rb" is ], "lx" is the letter x; "ws" is a space and "ch" any other
\* character that is no line break.  Runs of one unit follow each other with
\* different units.

\* What is left of runs after one unit of its first run.
DropUnit(runs) ==
    IF Head(runs).n = 1 THEN Tail(runs)
    ELSE <<Run(Head(runs).c, Head(runs).n - 1)>> \o Tail(runs)

\* The text group (.+) of the action-item pattern in what follows the
\* closing bracket, <<>> when the pattern does not match there: \s* takes
\* the leading whitespace and gives one space back when nothing else is left.
ActionItemText(rest) ==
    IF rest = <<>> THEN <<>>
    ELSE IF TrimStart(rest) = <<>> THEN <<Run("ws", 1)>>
    ELSE TrimStart(rest)

\* /^\s*[-*]\s*\[([ x])\]\s*(.+)$/ on a text of one line: the text group,
\* <<>> when the line is no action item.
ActionItem(runs) ==
    LET r0 == TrimStart(runs)
        r1 == IF r0 # <<>> /\ Head(r0) = Run("dash", 1)
              THEN TrimStart(Tail(r0)) ELSE <<>>
        r2 == IF r1 # <<>> /\ Head(r1) = Run("lb", 1) THEN Tail(r1) ELSE <<>>
        r3 == IF r2 # <<>> /\ Head(r2) \in {Run("ws", 1), Run("lx", 1)}
              THEN Tail(r2) ELSE <<>>
    IN  IF r3 # <<>> /\ Head(r3).c = "rb"
        THEN ActionItemText(DropUnit(r3))
        ELSE <<>>

\* The first replacement of convertOpalMarkdownToJira: an action item
\* becomes `[] ${text}`.
ReplaceActionItems(runs) ==
    LET text == ActionItem(runs)
    IN  IF text = <<>> THEN runs
        ELSE IF Head(text).c = "ws"
        THEN <<Run("lb", 1), Run("rb", 1), Run("ws", 1 + Head(text).n)>>
             \o Tail(text)
        ELSE <<Run("lb", 1), Run("rb", 1), Run("ws", 1)>> \o text

\* The second replacement: every listed glyph becomes its :name:.
ReplaceGlyphs(runs) ==
    [i \in 1..Len(runs) |->
        IF runs[i].c \in Glyphs THEN Run(emojiMap[runs[i].c], runs[i].n)
        ELSE runs[i]]

\* convertOpalMarkdownToJira: the action-item replacement, then the glyph
\* replacement; the last replacement writes back what it matched.
convertOpalMarkdownToJira(s) == Text(ReplaceGlyphs(ReplaceActionItems(s.runs)))

\* ------------------------------------------------------------- JiraClient

\* class JiraClientError extends Error: message (fragments) and status.
JiraClientError(message, status) ==
    [name |-> "JiraClientError", message |-> message, status |-> status]

\* A plain Error; status is unused (-1).
PlainError(message) == [name |-> "Error", message |-> message, status |-> -1]

Ok(value) == [ok |-> TRUE, value |-> value]

Throw(error) == [ok |-> FALSE, error |-> error]

NetworkErrorMessage == "Network error: Unable to reach JIRA server"

\* Mutant: no branch for a request without response; the transport's message
\* is passed on.
responseInterceptor_NoRequestBranch(reply) ==
    IF reply.kind = "response"
    THEN JiraClientError(
            << IF reply.dataMessage # "" THEN reply.dataMessage
               ELSE IF reply.errorMessages # <<>> THEN reply.errorMessages[1]
               ELSE reply.message >>,
            reply.status)
    ELSE JiraClientError(<<reply.message>>, 0)

\* What the transport hands back for one request:
\*   kind "ok"        a 2xx response carrying data;
\*   kind "response"  a non-2xx response: status, data.message ("" when
\*                    absent), data.errorMessages, and the transport's own
\*                    message;
\*   kind "request"   the request was sent and no response came;
\*   kind "setup"     the request could not be sent.
\* The response interceptor turns every failure into a JiraClientError.
responseInterceptor(reply) ==
    IF reply.kind = "response"
    THEN JiraClientError(
            << IF reply.dataMessage # "" THEN reply.dataMessage
               ELSE IF reply.errorMessages # <<>> THEN reply.errorMessages[1]
               ELSE reply.message >>,
            reply.status)
    ELSE IF reply.kind = "request"
    THEN JiraClientError(<<NetworkErrorMessage>>, 0)
    ELSE JiraClientError(<<reply.message>>, 0)

\* getUserByEmail, from the reply to GET /rest/api/3/user/search on.
getUserByEmail(email, reply) ==
    IF reply.kind # "ok" THEN Throw(responseInterceptor(reply))
    ELSE IF reply.data.null \/ Len(reply.data.users) = 0
    THEN Throw(JiraClientError(<<"User with email ", email, " not found">>, 404))
    ELSE Ok([accountId |-> reply.data.users[1].accountId,
             displayName |-> reply.data.users[1].displayName])

\* createIssue, from the reply to POST /rest/api/3/issue on.
createIssue(reply) ==
    IF reply.kind # "ok" THEN Throw(responseInterceptor(reply))
    ELSE Ok(reply.data)

createDescriptionADF(text) ==
    [type |-> "doc", version |-> 1,
     content |-> << [type |-> "paragraph",
                     content |-> << [text |-> text, type |-> "text"] >>] >>]

\* createIssueWithText up to its first await: the fields of the payload.  An
\* optional field that is not set is not in the domain.
IssueFields(projectKey, issueType, summary, description) ==
    LET base == [project |-> [key |-> projectKey],
                 summary |-> summary,
                 issuetype |-> [name |-> issueType]]
    IN  IF Truthy(description)
        THEN base @@ ("description" :> createDescriptionADF(description))
        ELSE base

\* Mutant: the lookup made for the first ticket only, as if its answer were
\* kept in the client.
HasAssigneeEmail_Once(email) == email # "" /\ prev.calls = <<>>

\* if (assigneeEmail): createIssueWithText looks the assignee up when it is
\* given an email.
HasAssigneeEmail(email) == email # ""

\* Mutant: the assignee written after the try block, with no account when
\* the lookup threw.
WithAssignee_Always(fields, found) ==
    fields @@ ("assignee" :>
                 [accountId |-> IF found.ok THEN found.value.accountId ELSE ""])

\* createIssueWithText after the lookup: the assignee is set when the lookup
\* returned, and left out when it threw.
WithAssignee(fields, found) ==
    IF found.ok
    THEN fields @@ ("assignee" :> [accountId |-> found.value.accountId])
    ELSE fields

\* ------------------------------------------------------------- jira-tools

\* The names the message texts of a deployment spell out.
ProjectName(v) == IF v = "dex" THEN "DEX" ELSE "Petsmart"

AssigneeName(v) == IF v = "dex" THEN "Alex Wald" ELSE ASSIGNEE_EMAIL(v)

SummaryRequired == "Summary is required and cannot be empty"

SummaryTooLong == "Summary must be 255 characters or less"

DescriptionTooLong == "Description must be 32,767 characters or less"

\* Mutant: the validation without the trim, if (!summary) alone.
Validate_NoTrim(summary, description) ==
    IF ~Truthy(summary) THEN SummaryRequired
    ELSE IF Length(summary) > MAX_SUMMARY_LENGTH THEN SummaryTooLong
    ELSE IF Truthy(description) /\ Length(description) > MAX_DESCRIPTION_LENGTH
    THEN DescriptionTooLong
    ELSE ""

\* Mutant: the length checks with >= for >.
Validate_OffByOne(summary, description) ==
    IF ~Truthy(summary) \/ Length(Trim(summary)) = 0 THEN SummaryRequired
    ELSE IF Length(summary) >= MAX_SUMMARY_LENGTH THEN SummaryTooLong
    ELSE IF Truthy(description) /\ Length(description) >= MAX_DESCRIPTION_LENGTH
    THEN DescriptionTooLong
    ELSE ""

\* Mutant: the length checks made before the required check.
Validate_LengthFirst(summary, description) ==
    IF Truthy(summary) /\ Length(summary) > MAX_SUMMARY_LENGTH
    THEN SummaryTooLong
    ELSE IF Truthy(description) /\ Length(description) > MAX_DESCRIPTION_LENGTH
    THEN DescriptionTooLong
    ELSE IF ~Truthy(summary) \/ Length(Trim(summary)) = 0 THEN SummaryRequired
    ELSE ""

\* The input validation of createJiraTicket: the message of the Error it
\* throws, or "" when the input passes.
Validate(summary, description) ==
    IF ~Truthy(summary) \/ Length(Trim(summary)) = 0 THEN SummaryRequired
    ELSE IF Length(summary) > MAX_SUMMARY_LENGTH THEN SummaryTooLong
    ELSE IF Truthy(description) /\ Length(description) > MAX_DESCRIPTION_LENGTH
    THEN DescriptionTooLong
    ELSE ""

\* Mutant: the description handed on as it came, without the trim.
DescriptionArg_NoTrim(v, description) ==
    IF v = "dex" THEN description
    ELSE IF Truthy(description) THEN convertOpalMarkdownToJira(description)
    ELSE NoText

\* description?.trim() in the DEX deployment; in the Petsmart one,
\* description ? convertOpalMarkdownToJira(description.trim()) : undefined.
DescriptionArg(v, description) ==
    IF v = "dex"
    THEN IF description.def THEN Trim(description) ELSE NoText
    ELSE IF Truthy(description)
         THEN convertOpalMarkdownToJira(Trim(description))
         ELSE NoText

\* Mutant: the project key read from the request when it names one.
CreateIssueArgs_FromRequest(v, p) ==
    [projectKey |-> IF p.project # "" THEN p.project ELSE PROJECT_KEY(v),
     issueType |-> DEFAULT_ISSUE_TYPE(v),
     summary |-> Trim(p.summary),
     description |-> DescriptionArg(v, p.description),
     assigneeEmail |-> ASSIGNEE_EMAIL(v)]

\* The arguments createJiraTicket passes to jiraClient.createIssueWithText.
CreateIssueArgs(v, p) ==
    [projectKey |-> PROJECT_KEY(v),
     issueType |-> DEFAULT_ISSUE_TYPE(v),
     summary |-> Trim(p.summary),
     description |-> DescriptionArg(v, p.description),
     assigneeEmail |-> ASSIGNEE_EMAIL(v)]

\* `${baseUrl}/browse/${result.key}`
TicketUrl(baseUrl, key) == <<baseUrl, "/browse/", key>>

SuccessMessage(v, key, ticketUrl) ==
    IF v = "dex"
    THEN <<"Successfully created JIRA ticket ", key,
           " in DEX project. The ticket has been assigned to Alex Wald and can be viewed at ">>
         \o ticketUrl
    ELSE <<"Successfully created JIRA ticket ", key,
           " in Petsmart DTO project. Attempted to assign to oruhland@petsmart.com. Check the ticket to verify assignment. View at ">>
         \o ticketUrl

\* Mutant: id and key of the provider's response taken for each other.
TicketResult_Swapped(v, baseUrl, result) ==
    [success |-> TRUE,
     ticketKey |-> result.id,
     ticketUrl |-> TicketUrl(baseUrl, result.id),
     ticketId |-> result.key,
     message |-> SuccessMessage(v, result.id, TicketUrl(baseUrl, result.id))]

\* The object createJiraTicket returns.
TicketResult(v, baseUrl, result) ==
    [success |-> TRUE,
     ticketKey |-> result.key,
     ticketUrl |-> TicketUrl(baseUrl, result.key),
     ticketId |-> result.id,
     message |-> SuccessMessage(v, result.key, TicketUrl(baseUrl, result.key))]

\* Mutant: no status matches, every provider error gets the generic text.
\* Mutant: the unexpected error's own message dropped.
UnexpectedDetail_Unknown(error) == <<"Unknown error">>

\* error instanceof Error ? error.message : 'Unknown error'
UnexpectedDetail(error) ==
    IF error.name = "Error" THEN error.message ELSE <<"Unknown error">>

\* Mutant: every provider error in the generic bucket.
ClassifyError_AllGeneric(v, error) ==
    IF error.name = "JiraClientError"
    THEN <<"Failed to create JIRA ticket in DEX project: ">> \o error.message
    ELSE <<"Unexpected error creating JIRA ticket: ">>
         \o (IF error.name = "Error" THEN error.message
             ELSE <<"Unknown error">>)

\* The catch block of createJiraTicket: the message of the Error it throws
\* for the error it caught.
ClassifyError(v, error) ==
    IF error.name = "JiraClientError"
    THEN IF error.status = 400
         THEN <<"Failed to create JIRA ticket: ", "Invalid request data",
                ". This could mean: 1) The ", ProjectName(v), " project (",
                PROJECT_KEY(v), ") configuration has changed, 2) The ",
                DEFAULT_ISSUE_TYPE(v),
                " issue type is not available, 3) Required custom fields are missing, or 4) Field values are invalid. Please contact your JIRA administrator to verify project configuration. ",
                "Technical details: ">> \o error.message
         ELSE IF error.status = 401
         THEN <<"Authentication", " failed when creating JIRA ticket. The API token may be expired or invalid. Please check the JIRA_API_TOKEN environment variable and ensure it has create permissions for the ",
                ProjectName(v), " project. ",
                "Technical details: ">> \o error.message
         ELSE IF error.status = 403
         THEN <<"Access denied", " when creating ticket in ", ProjectName(v),
                " project (", PROJECT_KEY(v),
                "). Your account may not have permission to create ",
                DEFAULT_ISSUE_TYPE(v),
                " issues in this project or assign tickets to ",
                AssigneeName(v),
                ". Please contact your JIRA administrator to verify permissions. ",
                "Technical details: ">> \o error.message
         ELSE IF error.status = 404
         THEN <<ProjectName(v), " project (", PROJECT_KEY(v), ") or ",
                DEFAULT_ISSUE_TYPE(v), " issue type ", "not found",
                ". The project may have been moved, renamed, or you may not have access to it. Please verify the project exists and you have appropriate permissions. ",
                "Technical details: ">> \o error.message
         ELSE IF error.status = 429
         THEN <<"Rate limit exceeded", " when creating JIRA ticket. Too many requests have been made to the JIRA API. Please wait a moment and try again. ",
                "Technical details: ">> \o error.message
         ELSE <<"Failed to create JIRA ticket in DEX project: ">>
              \o error.message
    ELSE <<"Unexpected error creating JIRA ticket: ">> \o UnexpectedDetail(error)

HealthOk == "JIRA connection validated successfully"

\* Mutant: a failed lookup reported as a failed connection.
ConnectionResult_Strict(v, found) ==
    IF found.ok
    THEN [success |-> TRUE, message |-> <<HealthOk>>,
          projectAccessible |-> TRUE, assigneeFound |-> TRUE]
    ELSE [success |-> FALSE,
          message |-> <<"JIRA connection failed: ">> \o found.error.message,
          projectAccessible |-> FALSE, assigneeFound |-> FALSE]

\* validateJiraConnection, from the outcome of its lookup on.
ConnectionResult(v, found) ==
    IF found.ok
    THEN [success |-> TRUE, message |-> <<HealthOk>>,
          projectAccessible |-> TRUE, assigneeFound |-> TRUE]
    ELSE [success |-> TRUE,
          message |-> <<HealthOk, " (Warning: Could not find user ",
                        ASSIGNEE_EMAIL(v), ")">>,
          projectAccessible |-> TRUE, assigneeFound |-> FALSE]

\* ----------------------------------------------------------------- inputs

Pad(n) == IF n = 0 THEN <<>> ELSE <<Run("ws", n)>>

Body(c, n) == IF n = 0 THEN <<>> ELSE <<Run(c, n)>>

Padded(lead, body, trail) == Text(Pad(lead) \o body \o Pad(trail))

Pads == 0..MaxPad

SummaryInputs ==
    {NoText, Text(<<Run("ws", 300)>>)} \cup
    {Padded(l, Body("ch", n), t) :
        l \in Pads, t \in Pads,
        n \in {0, 1, MAX_SUMMARY_LENGTH - 1, MAX_SUMMARY_LENGTH,
               MAX_SUMMARY_LENGTH + 1}}

DescriptionInputs ==
    {NoText, Text(<<Run("ch", 1), Run("rocket", 1)>>),
     Text(<<Run("dash", 1), Run("ws", 1), Run("lb", 1), Run("ws", 1),
            Run("rb", 1), Run("ws", 1), Run("ch", 1)>>),
     Text(<<Run("dash", 1), Run("lb", 1), Run("lx", 1), Run("rb", 1),
            Run("rocket", 1)>>),
     Text(<<Run("dash", 1), Run("ws", 1), Run("lb", 1), Run("ws", 1),
            Run("rb", 1)>>)} \cup
    {Padded(l, Body("ch", n), t) :
        l \in Pads, t \in Pads,
        n \in {0, 1, MAX_DESCRIPTION_LENGTH, MAX_DESCRIPTION_LENGTH + 1}}

\* What a caller can put in the body: the two parameters the tool declares
\* and, beside them, fields naming another project, issue type and assignee.
ParamInputs ==
    {[summary |-> s, description |-> d, project |-> "OTHER",
      issueType |-> "Bug", assignee |-> "mallory@example.com"] :
        s \in SummaryInputs, d \in DescriptionInputs}

NoParams ==
    [summary |-> NoText, description |-> NoText, project |-> "",
     issueType |-> "", assignee |-> ""]

Secret == "s3cret"

\* `Bearer ${bearerToken}`, as fragments
BearerHeader(token) == <<"Bearer ", token>>

\* Authorization headers: absent (<<>>), the exact one, the scheme in
\* another case, the secret in another case, and the bare secret.
AuthorizationInputs ==
    {<<>>, BearerHeader(Secret), <<"bearer ", Secret>>,
     <<"Bearer ", "S3CRET">>, <<Secret>>}

ToolPath == "/tools/create_jira_ticket"

Request(method, path, authorization, body) ==
    [method |-> method, path |-> path, authorization |-> authorization,
     body |-> body]

NoRequest == Request("", "", <<>>, NoParams)

HttpInputs ==
    {Request("POST", ToolPath, a, p) :
        a \in AuthorizationInputs, p \in ParamInputs} \cup
    {Request("GET", ToolPath, a, NoParams) : a \in AuthorizationInputs} \cup
    {Request("GET", path, <<>>, NoParams) :
        path \in {"/", "/health", "/discovery", "/nowhere"}}

Accounts ==
    {[accountId |-> "acc-1", displayName |-> "Alex Wald"],
     [accountId |-> "acc-2", displayName |-> "Someone Else"]}

RECURSIVE SeqsUpTo(_, _)
SeqsUpTo(S, n) ==
    IF n = 0 THEN {<<>>}
    ELSE SeqsUpTo(S, n - 1) \cup
         {Append(q, x) : q \in {r \in SeqsUpTo(S, n - 1) : Len(r) = n - 1},
                         x \in S}

Reply(kind, status, dataMessage, errorMessages, message, data) ==
    [kind |-> kind, status |-> status, dataMessage |-> dataMessage,
     errorMessages |-> errorMessages, message |-> message, data |-> data]

NoData == [null |-> TRUE, users |-> <<>>]

Statuses == {400, 401, 403, 404, 429, 500}

ErrorReplies ==
    {Reply("response", s, "X", <<>>, "Request failed", NoData) :
        s \in Statuses} \cup
    {Reply("response", 500, "", <<"Y">>, "Request failed", NoData),
     Reply("response", 500, "", <<>>, "Request failed", NoData),
     Reply("response", 500, NetworkErrorMessage, <<>>, "Request failed", NoData),
     Reply("request", 0, "", <<>>, "timeout of 30000ms exceeded", NoData),
     Reply("setup", 0, "", <<>>, "Invalid URL", NoData)}

LookupReplies ==
    {Reply("ok", 200, "", <<>>, "", [null |-> FALSE, users |-> u]) :
        u \in SeqsUpTo(Accounts, MaxUsers)} \cup
    {Reply("ok", 200, "", <<>>, "", NoData)} \cup
    ErrorReplies

CreateReplies ==
    {Reply("ok", 201, "", <<>>, "", [id |-> i, key |-> k]) :
        i \in {"10001"}, k \in {"DHK-123", "DTO-7"}} \cup
    ErrorReplies

\* --------------------------------------------------------------- index.ts

\* The middleware and routes of the Express app, in the order index.ts
\* registers them.  express.json() comes first; new ToolsService(app) mounts
\* the SDK's router (GET /discovery and the POST route of every registered
\* tool) on the app; then come GET /, GET /health, the bearer check (only
\* when BEARER_TOKEN is set), the error handler and the 404 handler.
Stack(token) ==
    <<"json", "toolsService", "root", "health">>
    \o (IF token # "" THEN <<"bearerCheck">> ELSE <<>>)
    \o <<"errorHandler", "notFound">>

\* Express runs the stack in order; a layer either ends the request or
\* calls next().  The value is the layer that ends the request.
RECURSIVE Dispatch(_, _, _)
Dispatch(stack, token, req) ==
    IF stack = <<>> THEN "finalhandler"
    ELSE LET layer == Head(stack)
             next == Dispatch(Tail(stack), token, req)
         IN  CASE layer = "toolsService" ->
                    IF req.method = "POST" /\ req.path = ToolPath
                    THEN "createJiraTicketTool"
                    ELSE IF req.method = "GET" /\ req.path = "/discovery"
                    THEN "discovery"
                    ELSE next
               [] layer = "root" ->
                    IF req.method = "GET" /\ req.path = "/" THEN "root"
                    ELSE next
               [] layer = "health" ->
                    IF req.method = "GET" /\ req.path = "/health"
                    THEN "health"
                    ELSE next
               [] layer = "bearerCheck" ->
                    IF req.path = ToolPath
                       /\ (req.authorization = <<>>
                           \/ req.authorization # BearerHeader(token))
                    THEN "unauthorized"
                    ELSE next
               [] layer = "notFound" -> "notFound"
               [] OTHER -> next

NoOutcome == [kind |-> "none"]

Returned(value) == [kind |-> "returned", value |-> value]

Threw(error) == [kind |-> "threw", error |-> error]

Responded(status, body) ==
    [kind |-> "responded", status |-> status, body |-> body]

\* What the history keeps of a request: its params, the account its lookup
\* answered ("" when it answered none), and its outbound calls.
NoPrev == [params |-> NoParams, account |-> "", calls |-> <<>>]

NoError == [name |-> "none", message |-> <<>>, status |-> -1]

\* No call has ended yet.
NoLookup == Throw(NoError)

LookupCall(email) == [op |-> "getUserByEmail", email |-> email]

CreateCall(fields) == [op |-> "createIssue", fields |-> fields]

\* ---------------------------------------------------------------- actions

Init ==
    /\ deployment \in Variants
    /\ bearerToken \in {"", Secret}
    /\ JIRA_BASE_URL \in {"https://jira.example.com",
                          "https://jira.sso.episerver.net"}
    /\ pc = "idle"
    /\ http = NoRequest
    /\ params = NoParams
    /\ issueData = <<>>
    /\ calls = <<>>
    /\ userLookup = NoLookup
    /\ created = NoLookup
    /\ console = <<>>
    /\ outcome = NoOutcome
    /\ prev = NoPrev

Config == <<deployment, bearerToken, JIRA_BASE_URL>>

\* The account a lookup answered, "" when it answered none.
Account(found) == IF found.ok THEN found.value.accountId ELSE ""

\* A request arrives.
Receive ==
    /\ pc = "idle"
    /\ \E req \in HttpInputs : http' = req
    /\ pc' = "routing"
    /\ UNCHANGED <<Config, params, issueData, calls, userLookup, created,
                   console, outcome, prev>>

\* The response is sent and the request ends; nothing of it is kept.
Finish ==
    /\ pc = "done"
    /\ pc' = "idle"
    /\ http' = NoRequest
    /\ params' = NoParams
    /\ issueData' = <<>>
    /\ calls' = <<>>
    /\ userLookup' = NoLookup
    /\ created' = NoLookup
    /\ console' = <<>>
    /\ outcome' = NoOutcome
    /\ UNCHANGED <<Config, prev>>

\* Express finds the layer that ends the request.  The tool's route calls
\* createJiraTicketTool with the body, GET /health calls
\* validateJiraConnection, the others respond at once.
Route ==
    /\ pc = "routing"
    /\ LET handler == Dispatch(Stack(bearerToken), bearerToken, http)
       IN  CASE handler = "createJiraTicketTool" ->
                    /\ pc' = "createJiraTicket"
                    /\ params' = http.body
                    /\ UNCHANGED <<http, outcome>>
             [] handler = "health" ->
                    /\ pc' = "validateJiraConnection"
                    /\ http' = NoRequest
                    /\ UNCHANGED <<params, outcome>>
             [] handler = "unauthorized" ->
                    /\ pc' = "done"
                    /\ http' = NoRequest
                    /\ outcome' = Responded(401, "Unauthorized")
                    /\ UNCHANGED params
             [] handler \in {"root", "discovery"} ->
                    /\ pc' = "done"
                    /\ http' = NoRequest
                    /\ outcome' = Responded(200, handler)
                    /\ UNCHANGED params
             [] OTHER ->
                    /\ pc' = "done"
                    /\ http' = NoRequest
                    /\ outcome' = Responded(404, "Not Found")
                    /\ UNCHANGED params
    /\ UNCHANGED <<Config, issueData, calls, userLookup, created, console,
                   prev>>

\* createJiraTicket up to its first await: the validation, the arguments,
\* and createIssueWithText up to the call of getUserByEmail.
CreateJiraTicket ==
    /\ pc = "createJiraTicket"
    /\ http' = NoRequest
    /\ LET invalid == Validate(params.summary, params.description)
           args == CreateIssueArgs(deployment, params)
       IN  IF invalid # ""
           THEN /\ outcome' = Threw(PlainError(<<invalid>>))
                /\ pc' = "done"
                /\ UNCHANGED <<issueData, calls>>
           ELSE /\ issueData' = IssueFields(args.projectKey, args.issueType,
                                            args.summary, args.description)
                /\ IF HasAssigneeEmail(args.assigneeEmail)
                   THEN /\ calls' = Append(calls,
                                           LookupCall(args.assigneeEmail))
                        /\ pc' = "lookup"
                   ELSE /\ calls' = Append(calls, CreateCall(issueData'))
                        /\ pc' = "create"
                /\ UNCHANGED outcome
    /\ UNCHANGED <<Config, params, userLookup, created, console, prev>>

\* The lookup ends; createIssueWithText sets the assignee or warns, and
\* calls createIssue.
LookupReturns ==
    /\ pc = "lookup"
    /\ \E reply \in LookupReplies :
        LET email == CreateIssueArgs(deployment, params).assigneeEmail
            user == getUserByEmail(email, reply)
        IN  /\ userLookup' = user
            /\ issueData' = WithAssignee(issueData, user)
            /\ console' =
                IF user.ok THEN console
                ELSE Append(console,
                            <<"Warning: Could not find user ", email,
                              ", creating ticket without assignee">>)
            /\ calls' = Append(calls, CreateCall(WithAssignee(issueData, user)))
    /\ pc' = "create"
    /\ UNCHANGED <<Config, http, params, created, outcome, prev>>

\* Mutant: a failed issue creation posted once more before giving up.
CreateReturns_Retry ==
    /\ pc = "create"
    /\ \E reply \in CreateReplies :
        LET result == createIssue(reply)
            again == ~result.ok /\ Len(calls) < 3
        IN  /\ created' = result
            /\ calls' = IF again THEN Append(calls, calls[Len(calls)])
                        ELSE calls
            /\ pc' = IF again THEN "create" ELSE "done"
            /\ outcome' =
                IF again THEN outcome
                ELSE IF result.ok
                THEN Returned(TicketResult(deployment, JIRA_BASE_URL,
                                           result.value))
                ELSE Threw(PlainError(ClassifyError(deployment, result.error)))
    /\ UNCHANGED <<Config, http, params, issueData, userLookup, console, prev>>

\* createIssue ends; createJiraTicket returns its result or throws the
\* error its catch block builds.
CreateReturns ==
    /\ pc = "create"
    /\ \E reply \in CreateReplies :
        LET result == createIssue(reply)
        IN  /\ created' = result
            /\ outcome' =
                IF result.ok
                THEN Returned(TicketResult(deployment, JIRA_BASE_URL,
                                           result.value))
                ELSE Threw(PlainError(ClassifyError(deployment, result.error)))
    /\ pc' = "done"
    /\ UNCHANGED <<Config, http, params, issueData, calls, userLookup, console,
                   prev>>

\* validateJiraConnection up to its await.
ValidateJiraConnection ==
    /\ pc = "validateJiraConnection"
    /\ calls' = Append(calls, LookupCall(ASSIGNEE_EMAIL(deployment)))
    /\ pc' = "healthLookup"
    /\ UNCHANGED <<Config, http, params, issueData, userLookup, created,
                   console, outcome, prev>>

\* The lookup of the health check ends; GET /health responds.
HealthLookupReturns ==
    /\ pc = "healthLookup"
    /\ \E reply \in LookupReplies :
        LET user == getUserByEmail(ASSIGNEE_EMAIL(deployment), reply)
        IN  /\ userLookup' = user
            /\ outcome' = Responded(200, ConnectionResult(deployment, user))
    /\ pc' = "done"
    /\ UNCHANGED <<Config, http, params, issueData, calls, created, console,
                   prev>>

Next ==
    \/ Receive
    \/ Route
    \/ CreateJiraTicket
    \/ LookupReturns
    \/ CreateReturns
    \/ ValidateJiraConnection
    \/ HealthLookupReturns
    \/ Finish

Spec == Init /\ [][Next]_vars

\* ------------------------------------------------- one request after another

\* Create-ticket requests that pass the bearer check and the validation.
RepeatParams ==
    {[summary |-> s, description |-> d, project |-> "OTHER",
      issueType |-> "Bug", assignee |-> "mallory@example.com"] :
        s \in {Padded(l, Body("ch", 1), 0) : l \in Pads},
        d \in {NoText, Text(<<Run("ch", 1)>>),
               Text(<<Run("ch", 1), Run("rocket", 1)>>)}}

\* A create-ticket request arrives.
ReceiveTicket ==
    /\ pc = "idle"
    /\ \E p \in RepeatParams :
          http' = Request("POST", ToolPath, BearerHeader(Secret), p)
    /\ pc' = "routing"
    /\ UNCHANGED <<Config, params, issueData, calls, userLookup, created,
                   console, outcome, prev>>

\* The response is sent and the request ends; the history keeps what the
\* request asked and which calls it made.
FinishRecorded ==
    /\ pc = "done"
    /\ prev' = IF params # NoParams /\ calls # <<>>
               THEN [params |-> params, account |-> Account(userLookup),
                     calls |-> calls]
               ELSE prev
    /\ pc' = "idle"
    /\ http' = NoRequest
    /\ params' = NoParams
    /\ issueData' = <<>>
    /\ calls' = <<>>
    /\ userLookup' = NoLookup
    /\ created' = NoLookup
    /\ console' = <<>>
    /\ outcome' = NoOutcome
    /\ UNCHANGED Config

NextRepeat ==
    \/ ReceiveTicket
    \/ Route
    \/ CreateJiraTicket
    \/ LookupReturns
    \/ CreateReturns
    \/ FinishRecorded

\* The service serving create-ticket requests one after another, with the
\* history of the one before.
SpecRepeat == Init /\ [][NextRepeat]_vars

\* ------------------------------------------------- the catch block alone

\* Statuses a provider error can carry: the five the catch block lists, 0
\* (no response), and others it does not list.
CaughtStatuses == {0, 200, 302, 400, 401, 403, 404, 409, 418, 429, 500, 503}

\* What the catch block of createJiraTicket can catch: a JiraClientError of
\* any status, or another Error (the TypeError of description?.trim() on a
\* description that is no string).
CaughtErrors ==
    {JiraClientError(m, st) :
        m \in {<<"X">>, <<"">>, <<NetworkErrorMessage>>},
        st \in CaughtStatuses} \cup
    {PlainError(<<m>>) : m \in {"description?.trim is not a function", "E"}}

\* The try block of createJiraTicket throws e; the catch block classifies it.
Classify ==
    /\ pc = "idle"
    /\ \E e \in CaughtErrors :
        /\ created' = Throw(e)
        /\ outcome' = Threw(PlainError(ClassifyError(deployment, e)))
    /\ pc' = "done"
    /\ UNCHANGED <<Config, http, params, issueData, calls, userLookup, console,
                   prev>>

NextClassify ==
    \/ Classify
    \/ Finish

\* The catch block of createJiraTicket over the errors it can catch.
SpecClassify == Init /\ [][NextClassify]_vars

\* ----------------------------------------------------------------- claims

Range(q) == {q[i] : i \in 1..Len(q)}

\* createJiraTicket was called for the request being served (the route
\* handed it the body), and has run its validation.
TicketRequestRan ==
    params # NoParams /\ pc \in {"lookup", "create", "done"}

ValidationMessages == {SummaryRequired, SummaryTooLong, DescriptionTooLong}

\* createJiraTicket threw one of its validation errors.
FailedValidation ==
    /\ pc = "done"
    /\ outcome.kind = "threw"
    /\ outcome.error.name = "Error"
    /\ \E m \in ValidationMessages : outcome.error.message = <<m>>

\* The summary is missing, empty, or holds whitespace only.
BlankSummary ==
    ~params.summary.def
    \/ \A i \in 1..Len(params.summary.runs) :
          params.summary.runs[i].c = "ws" \/ params.summary.runs[i].n = 0

\* C1: a create-ticket request whose summary is missing, empty or only
\* whitespace fails with a validation error, and no outbound call (lookup
\* or issue creation) is made for it.
C1_BlankSummaryRejected ==
    (TicketRequestRan /\ BlankSummary) => (FailedValidation /\ calls = <<>>)

\* A summary of whitespace only was rejected.
C1_Witness ==
    /\ TicketRequestRan
    /\ params.summary.def
    /\ Length(params.summary) > 0
    /\ BlankSummary
    /\ FailedValidation

SummaryLength == IF params.summary.def THEN Length(params.summary) ELSE 0

DescriptionLength ==
    IF params.description.def THEN Length(params.description) ELSE 0

\* C2: both length bounds are inclusive and enforced before any outbound
\* call: a summary longer than 255 (untrimmed) or a description longer than
\* 32767 fails with a validation error and no outbound call, while a
\* non-blank summary of at most 255 with a description of at most 32767 passes
\* the validation (the lookup is called).
C2_InclusiveLengthBounds ==
    TicketRequestRan =>
        /\ (SummaryLength > 255 \/ DescriptionLength > 32767)
              => (FailedValidation /\ calls = <<>>)
        /\ (~BlankSummary /\ SummaryLength <= 255 /\ DescriptionLength <= 32767)
              => (~FailedValidation /\ calls # <<>>
                  /\ calls[1].op = "getUserByEmail")

\* A summary of exactly 255 with a description of exactly 32767 was accepted
\* and the ticket created.
C2_Witness ==
    /\ TicketRequestRan
    /\ SummaryLength = 255
    /\ DescriptionLength = 32767
    /\ pc = "done"
    /\ outcome.kind = "returned"

ConfiguredProjectKey == IF deployment = "dex" THEN "DHK" ELSE "DTO"

ConfiguredIssueType == IF deployment = "dex" THEN "Story" ELSE "Epic"

ConfiguredAssigneeEmail ==
    IF deployment = "dex" THEN "alex.wald@optimizely.com"
    ELSE "oruhland@petsmart.com"

\* C3: every issue-creation payload sent for a create-ticket request names
\* the configured project key and issue type, and its assignee, when
\* present, is the account the lookup of the configured assignee email
\* returned; nothing in the request changes them.
C3_PayloadUsesFixedConfig ==
    params # NoParams =>
        \A i \in 1..Len(calls) :
            calls[i].op = "createIssue" =>
                /\ calls[i].fields.project.key = ConfiguredProjectKey
                /\ calls[i].fields.issuetype.name = ConfiguredIssueType
                /\ "assignee" \in DOMAIN calls[i].fields =>
                      /\ i = 2
                      /\ calls[1] = [op |-> "getUserByEmail",
                                     email |-> ConfiguredAssigneeEmail]
                      /\ userLookup.ok
                      /\ calls[i].fields.assignee
                            = [accountId |-> userLookup.value.accountId]

\* A request that also named another project, issue type and assignee got
\* its ticket created, with an assignee.
C3_Witness ==
    /\ pc = "done"
    /\ outcome.kind = "returned"
    /\ params.project = "OTHER"
    /\ params.assignee = "mallory@example.com"
    /\ Len(calls) = 2
    /\ "assignee" \in DOMAIN calls[2].fields

\* The getUserByEmail of this request threw.
LookupThrew == ~userLookup.ok /\ userLookup.error.name = "JiraClientError"

\* C4: when the assignee lookup fails, for whatever reason, the issue
\* creation is still called, its payload has no assignee field, and
\* createJiraTicket returns a result whenever that creation call succeeds.
C4_LookupFailureDoesNotBlock ==
    (params # NoParams /\ pc \in {"create", "done"} /\ LookupThrew) =>
        /\ Len(calls) = 2
        /\ calls[2].op = "createIssue"
        /\ "assignee" \notin DOMAIN calls[2].fields
        /\ (pc = "done" /\ created.ok) =>
              (outcome.kind = "returned" /\ outcome.value.success)

\* The lookup got no response at all and the ticket was still created.
C4_Witness ==
    /\ params # NoParams
    /\ pc = "done"
    /\ LookupThrew
    /\ userLookup.error.status = 0
    /\ created.ok
    /\ outcome.kind = "returned"

\* C5: createJiraTicket returns a result only when the issue creation
\* succeeded, and for the provider's {id, key} and base URL B the result is
\* exactly {success: true, ticketKey: key, ticketId: id, ticketUrl:
\* B/browse/key, message}, the message containing key.
C5_ResultRoundTrip ==
    (params # NoParams /\ pc = "done") =>
        /\ outcome.kind = "returned" <=> created.ok
        /\ outcome.kind = "returned" =>
              /\ DOMAIN outcome.value =
                    {"success", "ticketKey", "ticketId", "ticketUrl", "message"}
              /\ outcome.value.success = TRUE
              /\ outcome.value.ticketKey = created.value.key
              /\ outcome.value.ticketId = created.value.id
              /\ outcome.value.ticketUrl =
                    <<JIRA_BASE_URL, "/browse/", created.value.key>>
              /\ created.value.key \in Range(outcome.value.message)

\* The provider answered {id: "10001", key: "DHK-123"} under the base URL
\* https://jira.example.com and the result was returned.
C5_Witness ==
    /\ pc = "done"
    /\ outcome.kind = "returned"
    /\ JIRA_BASE_URL = "https://jira.example.com"
    /\ created.value = [id |-> "10001", key |-> "DHK-123"]
    /\ outcome.value.ticketUrl =
          <<"https://jira.example.com", "/browse/", "DHK-123">>

\* The issue creation of this request failed with a status in S.
CreateFailedWith(S) ==
    /\ params # NoParams
    /\ pc = "done"
    /\ ~created.ok
    /\ created.error.name = "JiraClientError"
    /\ created.error.status \in S

ErrorText == Range(outcome.error.message)

ThemeKeyword(status) ==
    CASE status = 400 -> "Invalid request data"
      [] status = 401 -> "Authentication"
      [] status = 403 -> "Access denied"
      [] status = 404 -> "not found"
      [] status = 429 -> "Rate limit exceeded"

C7_AsClaimed ==
    CreateFailedWith({0}) =>
        outcome.error.message
            # ClassifyError(deployment, JiraClientError(created.error.message, 500))

\* C7 as amended: status 0 has no branch of its own: the error is the
\* generic "Failed to create JIRA ticket in DEX project: " followed by the
\* client's message, which is "Network error: Unable to reach JIRA server"
\* when no response came and the transport's own message when the request
\* could not be sent.
C7_TransportFailureIsGeneric ==
    CreateFailedWith({0}) =>
        /\ outcome.kind = "threw"
        /\ outcome.error.message =
              <<"Failed to create JIRA ticket in DEX project: ">>
              \o created.error.message
        /\ created.error.message \in
              {<<"Network error: Unable to reach JIRA server">>, <<"Invalid URL">>}

\* No response came for the issue creation.
C7_Witness ==
    /\ CreateFailedWith({0})
    /\ created.error.message = <<"Network error: Unable to reach JIRA server">>
    /\ outcome.kind = "threw"

\* C8 as claimed: with a bearer secret configured, createJiraTicket is
\* entered only by requests whose Authorization header is exactly
\* "Bearer <secret>".
C8_AsClaimed ==
    (bearerToken # "" /\ pc = "createJiraTicket") =>
        http.authorization = <<"Bearer ", bearerToken>>

\* All the fragments of warning w are in message m.
Attached(w, m) == Range(w) \subseteq Range(m)

\* C9 as claimed: when the lookup failed and the ticket was created, the
\* warning is attached to the message of the returned result.
C9_AsClaimed ==
    (params # NoParams /\ pc = "done" /\ LookupThrew
        /\ outcome.kind = "returned") =>
        \E i \in 1..Len(console) : Attached(console[i], outcome.value.message)

\* GET /health has answered with the result of validateJiraConnection.
HealthAnswered ==
    /\ pc = "done"
    /\ params = NoParams
    /\ calls # <<>>
    /\ outcome.kind = "responded"

\* C10: when the lookup of the health check throws, the result has
\* assigneeFound = false, projectAccessible = true and success = true.
C10_HealthLookupFailure ==
    (HealthAnswered /\ LookupThrew) =>
        /\ outcome.status = 200
        /\ outcome.body.assigneeFound = FALSE
        /\ outcome.body.projectAccessible = TRUE
        /\ outcome.body.success = TRUE

\* The health check's lookup found no account (404).
C10_Witness ==
    /\ HealthAnswered
    /\ LookupThrew
    /\ userLookup.error.status = 404
    /\ outcome.body.assigneeFound = FALSE

\* C11 as claimed: whenever the provider call of the health check fails with
\* a provider error, validateJiraConnection answers with a result whose
\* success is false, and no issue creation is called.
C11_AsClaimed ==
    (HealthAnswered /\ LookupThrew) =>
        /\ outcome.body.success = FALSE
        /\ \A i \in 1..Len(calls) : calls[i].op # "createIssue"

\* C12: a create-ticket request with the same input as the one before it,
\* answered the same by the provider's lookup, makes the same two outbound
\* calls again, the lookup and then the issue creation: nothing the first
\* request left suppresses or alters them.
C12_RepeatedCallIsIndependent ==
    (pc \in {"create", "done"} /\ prev.calls # <<>> /\ prev.params = params
        /\ prev.account = Account(userLookup)) =>
        /\ Len(calls) = 2
        /\ calls[1].op = "getUserByEmail"
        /\ calls[2].op = "createIssue"
        /\ calls = prev.calls

\* A second request with the input of the first has had its ticket created.
C12_Witness ==
    /\ pc = "done"
    /\ prev.calls # <<>>
    /\ prev.params = params
    /\ prev.account = Account(userLookup)
    /\ outcome.kind = "returned"
    /\ Len(calls) = 2

\* The positions of the lookups and of the issue creations among the
\* outbound calls of the request.
Lookups == {i \in 1..Len(calls) : calls[i].op = "getUserByEmail"}

Creations == {i \in 1..Len(calls) : calls[i].op = "createIssue"}

\* C13: a create-ticket invocation makes at most two outbound calls, at most
\* one lookup and at most one issue creation; calls are made only for input
\* that passes the validation; the lookup has ended before the creation is
\* called; and a failed creation (429 and status 0 included) ends the
\* invocation with an error, without a second creation call.
C13_OrderedAtMostTwoCalls ==
    params # NoParams =>
        /\ Len(calls) <= 2
        /\ Cardinality(Lookups) <= 1
        /\ Cardinality(Creations) <= 1
        /\ \A i \in Lookups : \A j \in Creations : i < j
        /\ calls # <<>> =>
              (~BlankSummary /\ SummaryLength <= 255
                  /\ DescriptionLength <= 32767)
        /\ Creations # {} =>
              (pc \in {"create", "done"} /\ userLookup # NoLookup)
        /\ pc = "create" => created = NoLookup
        /\ (pc = "done" /\ created # NoLookup /\ ~created.ok) =>
              (outcome.kind = "threw" /\ Cardinality(Creations) = 1)

\* The creation was rate limited (429) after the lookup had answered; the
\* invocation ended with the two calls made.
C13_Witness ==
    /\ CreateFailedWith({429})
    /\ userLookup.ok
    /\ outcome.kind = "threw"
    /\ Len(calls) = 2
    /\ Lookups = {1}
    /\ Creations = {2}

\* createJiraTicket threw the validation error with message m.
Rejected(m) ==
    /\ pc = "done"
    /\ calls = <<>>
    /\ outcome.kind = "threw"
    /\ outcome.error.name = "Error"
    /\ outcome.error.message = <<m>>

\* C14: the validation rules apply in the order summary required, summary
\* too long, description too long, and the first rule that fails gives the
\* error: a blank summary is "required" whatever its length and whatever
\* the description; a non-blank summary over 255 is "summary too long"
\* whatever the description; the description's rule gives the error only
\* when the summary passes both of its rules.
C14_FirstFailingRuleWins ==
    TicketRequestRan =>
        /\ BlankSummary =>
              Rejected("Summary is required and cannot be empty")
        /\ (~BlankSummary /\ SummaryLength > 255) =>
              Rejected("Summary must be 255 characters or less")
        /\ (~BlankSummary /\ SummaryLength <= 255
                /\ DescriptionLength > 32767) =>
              Rejected("Description must be 32,767 characters or less")

\* A summary of 300 spaces with a description over 32767 was rejected as
\* "summary required".
C14_Witness ==
    /\ TicketRequestRan
    /\ params.summary.def
    /\ BlankSummary
    /\ SummaryLength = 300
    /\ DescriptionLength > 32767
    /\ Rejected("Summary is required and cannot be empty")

\* The catch block of createJiraTicket has thrown for a caught error.
Classified == pc = "done" /\ ~created.ok /\ created # NoLookup

ListedStatuses == {400, 401, 403, 404, 429}

\* C15: whatever the catch block of createJiraTicket catches, the message of
\* the error it throws ends with the caught error's message, after a
\* diagnosis that is not empty: "Technical details: " precedes it for the
\* five listed statuses, every other status gets the generic "Failed to
\* create JIRA ticket in DEX project: ", and an error that is no provider
\* error gets "Unexpected error creating JIRA ticket: ".
C15_DetailFollowsDiagnosis ==
    Classified =>
        LET m == outcome.error.message
            d == created.error.message
            k == Len(m) - Len(d)
        IN  /\ outcome.kind = "threw"
            /\ k >= 1
            /\ SubSeq(m, k + 1, Len(m)) = d
            /\ m[1] # ""
            /\ (created.error.name = "JiraClientError"
                    /\ created.error.status \in ListedStatuses) =>
                  (k > 1 /\ m[k] = "Technical details: ")
            /\ (created.error.name = "JiraClientError"
                    /\ created.error.status \notin ListedStatuses) =>
                  m = <<"Failed to create JIRA ticket in DEX project: ">> \o d
            /\ created.error.name # "JiraClientError" =>
                  m = <<"Unexpected error creating JIRA ticket: ">> \o d

\* An unlisted status (418) with detail "X" landed in the generic bucket.
C15_Witness ==
    /\ Classified
    /\ created.error = JiraClientError(<<"X">>, 418)
    /\ outcome.error.message =
          <<"Failed to create JIRA ticket in DEX project: ", "X">>

\* Text t is text s without its leading and trailing whitespace.
IsTrimOf(t, s) ==
    /\ t.def
    /\ s.def
    /\ \A i \in 1..Len(t.runs) : t.runs[i].n > 0
    /\ t.runs # <<>> => (t.runs[1].c # "ws" /\ t.runs[Len(t.runs)].c # "ws")
    /\ \E i \in 1..Len(s.runs) + 1 : \E j \in 0..Len(s.runs) :
          /\ t.runs = SubSeq(s.runs, i, j)
          /\ \A k \in 1..Len(s.runs) : (k < i \/ k > j) => s.runs[k].c = "ws"

\* The description is missing, empty, or holds whitespace only.
BlankDescription ==
    ~params.description.def
    \/ \A i \in 1..Len(params.description.runs) :
          params.description.runs[i].c = "ws"
              \/ params.description.runs[i].n = 0

\* C16: the payload of every issue creation has the trimmed summary as its
\* summary; it has a description field exactly when the description of the
\* request is not blank; the field is a doc of version 1 with one paragraph
\* holding one text node, whose text is not empty and, in the DEX
\* deployment, is the trimmed description.
C16_PayloadFromTrimmedInput ==
    params # NoParams =>
        \A i \in Creations :
            LET fields == calls[i].fields
            IN  /\ IsTrimOf(fields.summary, params.summary)
                /\ "description" \in DOMAIN fields <=> ~BlankDescription
                /\ "description" \in DOMAIN fields =>
                      /\ fields.description.type = "doc"
                      /\ fields.description.version = 1
                      /\ Len(fields.description.content) = 1
                      /\ fields.description.content[1].type = "paragraph"
                      /\ Len(fields.description.content[1].content) = 1
                      /\ LET node == fields.description.content[1].content[1]
                         IN  /\ node.type = "text"
                             /\ Length(node.text) > 0
                             /\ deployment = "dex" =>
                                   IsTrimOf(node.text, params.description)

\* A description with a space before it went out trimmed, in one text node,
\* beside a summary that had spaces around it.
C16_Witness ==
    /\ pc = "done"
    /\ outcome.kind = "returned"
    /\ deployment = "dex"
    /\ params.summary.runs = <<Run("ws", 1), Run("ch", 1), Run("ws", 1)>>
    /\ params.description.runs = <<Run("ws", 1), Run("ch", 1)>>
    /\ calls[2].fields.summary = Text(<<Run("ch", 1)>>)
    /\ calls[2].fields.description.content[1].content[1].text
          = Text(<<Run("ch", 1)>>)

====
